---- MODULE Spec2Model ----
(***************************************************************************)
(* A model of src/src/models/models.js: the schema-validated attribute     *)
(* container Model and the DynamoDB active record DbModel built on it.     *)
(*                                                                         *)
(* The remote store (the DocumentClient) and the schema library (tcomb)    *)
(* are the environment: the store answers each request with any response   *)
(* of a bounded set, the schema checks the attributes in declared order    *)
(* and throws at the first one that fails.                                 *)
(*                                                                         *)
(* Attribute names are taken to differ from the members an instance has    *)
(* of its own (_schema, _errors, _tableName, the setters, the methods).    *)
(***************************************************************************)
EXTENDS Integers, Sequences, FiniteSets, TLC

(***************************************************************************)
(* Bounds of the explored inputs.                                          *)
(***************************************************************************)
\* Most entries of the map handed to one populate() call.
MaxPopulate == 2
\* Most pages the store answers one query with.
MaxPages == 3
\* Longest key list handed to findAllByPk.
MaxKeys == 2

(***************************************************************************)
(* JavaScript values.  A value is a record of its type tag and its         *)
(* printed form, so that 0 and "0", or undefined and null, stay apart.     *)
(***************************************************************************)
Undefined == [t |-> "undefined", v |-> "undefined"]
Null == [t |-> "null", v |-> "null"]
Str(s) == [t |-> "string", v |-> s]
Num(s) == [t |-> "number", v |-> s]

\* ToBoolean of a value: what `if (x)` and `x ? a : b` test.
Truthy(x) ==
  CASE x.t = "undefined" -> FALSE
    [] x.t = "null" -> FALSE
    [] x.t = "string" -> x.v # ""
    [] x.t = "number" -> x.v \notin {"0", "NaN"}
    [] OTHER -> TRUE

\* ToPropertyKey of a value used as a computed member name: obj[x] = ...
PropertyKey(x) == x.v

\* The empty object {}.
EmptyObject == [n \in {} |-> Undefined]

\* obj[name]: the own property, or undefined.
Get(obj, name) == IF name \in DOMAIN obj THEN obj[name] ELSE Undefined

\* obj[name] = value
Put(obj, name, value) ==
  [n \in DOMAIN obj \cup {name} |-> IF n = name THEN value ELSE obj[n]]

KEY_FIELD_VALUE == Str("KEY_FIELD_VALUE")
TEXT_FIELD_VALUE == Str("TEXT_FIELD_VALUE")

(***************************************************************************)
(* The schema: tcomb's t.struct(props, name).  meta.props maps the         *)
(* declared attribute names, in declaration order, to their types.         *)
(***************************************************************************)
\* The schema of the test models.
MockSchema ==
  [name |-> "MockModel",
   props |-> << [name |-> "keyField", type |-> "String"],
                [name |-> "myTextField", type |-> "String"],
                [name |-> "optionalField", type |-> "?String"] >>]

\* A schema that declares fewer attributes, in another order.
ShortSchema ==
  [name |-> "ShortModel",
   props |-> << [name |-> "optionalField", type |-> "?String"],
                [name |-> "keyField", type |-> "String"] >>]

\* Attribute names the callers and the store use; the last one is declared by
\* no schema.
AttributeNames == {"keyField", "myTextField", "optionalField", "nonExistantField"}

\* schema.meta.props.hasOwnProperty(name)
Declared(schema) == {schema.props[i].name : i \in 1..Len(schema.props)}

\* type.is(value) for t.String and t.maybe(t.String)
TypeIs(type, value) ==
  CASE type = "String" -> value.t = "string"
    [] type = "?String" -> value.t \in {"string", "null", "undefined"}
    [] OTHER -> FALSE

\* tcomb's stringify of the offending value
Stringify(value) ==
  IF value.t = "string" THEN "\"" \o value.v \o "\"" ELSE value.v

\* The message of the TypeError the schema throws for attribute i.
InvalidValueMessage(schema, i, value) ==
  "[tcomb] Invalid value " \o Stringify(value) \o " supplied to "
    \o schema.name \o "/" \o schema.props[i].name \o ": " \o schema.props[i].type

\* new schema(value): walks the declared attributes from the i-th on, in
\* order, and throws at the first whose value is not of its type.  The result
\* is the message thrown, or "" when the struct is created.
RECURSIVE SchemaCreate(_, _, _)
SchemaCreate(schema, value, i) ==
  IF i > Len(schema.props) THEN ""
  ELSE LET actual == Get(value, schema.props[i].name)
       IN IF TypeIs(schema.props[i].type, actual)
          THEN SchemaCreate(schema, value, i + 1)
          ELSE InvalidValueMessage(schema, i, actual)

(***************************************************************************)
(* Model.  An instance is a record of its own enumerable attribute         *)
(* properties (props), its _schema and its _errors; a DbModel instance     *)
(* also has _tableName, _partitionKey and _sortKey.                        *)
(***************************************************************************)
\* A faulty populate, which assigns every entry, declared or not.
populateAll(this, values) ==
  [this EXCEPT !.props =
     [n \in DOMAIN this.props \cup DOMAIN values |->
        IF n \in DOMAIN values THEN values[n] ELSE this.props[n]]]

\* Model.populate(values)
populate(this, values) ==
  LET assigned == {n \in DOMAIN values : n \in Declared(this.schema)}
  IN [this EXCEPT !.props =
        [n \in DOMAIN this.props \cup assigned |->
           IF n \in assigned THEN values[n] ELSE this.props[n]]]

\* Model.getAttributes()
getAttributes(this) ==
  LET names == {n \in Declared(this.schema) : n \in DOMAIN this.props}
  IN [n \in names |-> this.props[n]]

\* A faulty validate, which keeps the errors of earlier validations.
validateKeepingErrors(this) ==
  LET thrown == SchemaCreate(this.schema, this.props, 1)
  IN IF thrown = ""
     THEN [this |-> this, result |-> TRUE]
     ELSE [this |-> [this EXCEPT !.errors = Append(this.errors, thrown)],
           result |-> FALSE]

\* Model.validate(): the instance after the call, and the value returned.
validate(this) ==
  LET reset == [this EXCEPT !.errors = << >>]
      thrown == SchemaCreate(reset.schema, reset.props, 1)
  IN IF thrown = ""
     THEN [this |-> reset, result |-> TRUE]
     ELSE [this |-> [reset EXCEPT !.errors = Append(reset.errors, thrown)],
           result |-> FALSE]

\* Model.getValidationErrors()
getValidationErrors(this) == this.errors

(***************************************************************************)
(* DbModel: construction and table naming.                                 *)
(***************************************************************************)
\* Array.prototype.join('-') of a sequence of strings.
RECURSIVE Join(_)
Join(parts) ==
  IF Len(parts) = 0 THEN ""
  ELSE IF Len(parts) = 1 THEN parts[1].v
  ELSE parts[1].v \o "-" \o Join(Tail(parts))

\* [process.env.project, process.env.stage, this.constructor.name]
\*   .filter((p) => p !== undefined).join('-')
DefaultTableName(project, stage, name) ==
  Join(SelectSeq(<< project, stage, name >>, LAMBDA p : p # Undefined))

\* new Model(schema, initialValues), with the DbModel fields not yet set.
ModelConstructor(schema, initialValues) ==
  populate([schema |-> schema, props |-> EmptyObject, errors |-> << >>,
            tableName |-> Undefined, partitionKey |-> Undefined,
            sortKey |-> Undefined],
           initialValues)

\* new DbModel(schema, initialValues) for a concrete type named `name`.
DbModelConstructor(schema, initialValues, project, stage, name) ==
  [ModelConstructor(schema, initialValues) EXCEPT
     !.tableName = Str(DefaultTableName(project, stage, Str(name)))]

\* The concrete record types: what each constructor assigns after super().
\* An assignment the constructor does not make is Undefined.
MockDbModel ==
  [name |-> "MockDbModel", schema |-> MockSchema,
   tableName |-> Str("custom-table-name"),
   partitionKey |-> Str("keyField"), sortKey |-> Undefined]

MockDbModelWithoutTableName ==
  [name |-> "MockDbModelWithoutTableName", schema |-> MockSchema,
   tableName |-> Undefined,
   partitionKey |-> Str("keyField"), sortKey |-> Undefined]

\* A type with a composite primary key.
Widget ==
  [name |-> "Widget", schema |-> ShortSchema,
   tableName |-> Undefined,
   partitionKey |-> Str("keyField"), sortKey |-> Str("optionalField")]

Types == {MockDbModel, MockDbModelWithoutTableName, Widget}

\* new Type(initialValues): the subclass constructor.
New(type, initialValues, project, stage) ==
  LET super == DbModelConstructor(type.schema, initialValues, project, stage,
                                  type.name)
      named == IF type.tableName = Undefined THEN super
               ELSE [super EXCEPT !.tableName = type.tableName]
  IN [named EXCEPT !.partitionKey = type.partitionKey,
                   !.sortKey = type.sortKey]

(***************************************************************************)
(* The remote store.  A request is the options object handed to the        *)
(* DocumentClient; a response is the data the promise resolves with, or a  *)
(* store error it rejects with.                                            *)
(***************************************************************************)
\* { ...a, ...b }
Spread(a, b) ==
  [n \in DOMAIN a \cup DOMAIN b |-> IF n \in DOMAIN b THEN b[n] ELSE a[n]]

StoreError == [t |-> "error", v |-> "ProvisionedThroughputExceededException"]

\* new Error(message)
Error(message) == [t |-> "error", v |-> message]

\* A JavaScript object, array or model instance where a slot may also hold
\* undefined.
Object(o) == [t |-> "object", v |-> o]
Array(a) == [t |-> "array", v |-> a]
Instance(m) == [t |-> "model", v |-> m]

\* The promise of a remote call that resolved with data, or rejected.
Resolves(data) == [ok |-> TRUE, data |-> data, error |-> Undefined]
Rejects(error) == [ok |-> FALSE, data |-> EmptyObject, error |-> error]

\* Items the store may hold.  The second has an attribute no schema declares.
ItemA ==
  [n \in {"keyField", "myTextField"} |->
     IF n = "keyField" THEN KEY_FIELD_VALUE ELSE TEXT_FIELD_VALUE]

ItemB ==
  [n \in {"keyField", "nonExistantField"} |->
     IF n = "keyField" THEN TEXT_FIELD_VALUE ELSE Num("123")]

StoredItems == {ItemA, ItemB}

\* Lists of items the store may return at once, in its own order: one page of
\* a query, or the answer to a batch-get.
ItemLists == { << >>, << ItemA >>, << ItemA, ItemB >>, << ItemB, ItemA >> }

\* Sequences over S of length at most n.
SeqsUpTo(S, n) == UNION {[1..k -> S] : k \in 0..n}

\* The LastEvaluatedKey the store returns with page i of a query.
ContinuationToken(i) == [t |-> "key", v |-> i]

\* What the store answers a query with: page i carries the continuation token
\* of page i unless it is the last; a store that fails does so on its last
\* answer.
QueryStores ==
  { [pages |-> pages, fails |-> fails] :
      pages \in UNION {[1..n -> ItemLists] : n \in 1..MaxPages},
      fails \in BOOLEAN }

\* The store's answer to one query request: the page after the one named by
\* the request's ExclusiveStartKey, the first page without one.
QueryResponse(store, options) ==
  LET i == IF "ExclusiveStartKey" \in DOMAIN options
           THEN options["ExclusiveStartKey"].v + 1 ELSE 1
      n == Len(store.pages)
  IN IF i = n /\ store.fails THEN Rejects(StoreError)
     ELSE IF i < n
     THEN Resolves(("Items" :> store.pages[i])
                     @@ ("LastEvaluatedKey" :> ContinuationToken(i)))
     ELSE Resolves(("Items" :> store.pages[n]))

\* What the store answers a batch-get with: the items it returns, in its own
\* order, under each table the request names.
BatchGetStores ==
  { [items |-> items, fails |-> fails] :
      items \in ItemLists, fails \in BOOLEAN }

BatchGetResponse(store, options) ==
  IF store.fails THEN Rejects(StoreError)
  ELSE Resolves(("Responses" :>
                   [table \in DOMAIN options["RequestItems"] |-> store.items]))

\* What the store answers a get with: no Item, an Item, or an error.
GetResponses ==
  {Resolves(EmptyObject), Rejects(StoreError)}
    \cup {Resolves(("Item" :> Object(item))) : item \in StoredItems}

\* What the store answers a put with (ReturnValues is NONE), or an error.
PutResponses == {Resolves(EmptyObject), Rejects(StoreError)}

(***************************************************************************)
(* DbModel's internal key-value operations.  Each yields the requests it   *)
(* sent (calls), and how its promise settled (state, value).               *)
(***************************************************************************)
\* DbModel._getItem(model, opts)
getItem(model, opts, response) ==
  LET options == Spread(("TableName" :> model.tableName), opts)
  IN [calls |-> << [op |-> "get", params |-> options] >>,
      state |-> IF response.ok THEN "resolved" ELSE "rejected",
      value |-> IF response.ok THEN Get(response.data, "Item")
                ELSE response.error]

\* DbModel._batchGetItems(model, opts)
batchGetItems(model, opts, store) ==
  LET options == ("RequestItems" :>
                    (PropertyKey(model.tableName) :> Spread(EmptyObject, opts)))
      response == BatchGetResponse(store, options)
  IN [calls |-> << [op |-> "batchGet", params |-> options] >>,
      state |-> IF response.ok THEN "resolved" ELSE "rejected",
      value |-> IF response.ok
                THEN response.data["Responses"][PropertyKey(model.tableName)]
                ELSE response.error]

\* A faulty _queryItems, which returns the first page only.
queryItemsFirstPage(model, opts, store) ==
  LET options == Spread(("TableName" :> model.tableName), opts)
      response == QueryResponse(store, options)
  IN [calls |-> << [op |-> "query", params |-> options] >>,
      state |-> IF response.ok THEN "resolved" ELSE "rejected",
      value |-> IF response.ok THEN response.data["Items"] ELSE response.error]

\* DbModel._queryItems(model, opts): when the answer carries a
\* LastEvaluatedKey it calls itself with that key as ExclusiveStartKey and
\* appends what that call yields.
RECURSIVE queryItems(_, _, _)
queryItems(model, opts, store) ==
  LET options == Spread(("TableName" :> model.tableName), opts)
      response == QueryResponse(store, options)
      call == [op |-> "query", params |-> options]
  IN IF ~response.ok
     THEN [calls |-> << call >>, state |-> "rejected", value |-> response.error]
     ELSE IF Truthy(Get(response.data, "LastEvaluatedKey"))
     THEN LET items == queryItems(model,
                         Put(opts, "ExclusiveStartKey",
                             response.data["LastEvaluatedKey"]),
                         store)
          IN [calls |-> << call >> \o items.calls,
              state |-> items.state,
              value |-> IF items.state = "resolved"
                        THEN response.data["Items"] \o items.value
                        ELSE items.value]
     ELSE [calls |-> << call >>, state |-> "resolved",
           value |-> response.data["Items"]]

\* A faulty _putItem, which writes without validating.
putItemUnvalidated(model, opts, response) ==
  LET options == Spread(("TableName" :> model.tableName)
                          @@ ("Item" :> getAttributes(model))
                          @@ ("ReturnValues" :> Str("NONE")), opts)
  IN [model |-> model,
      calls |-> << [op |-> "put", params |-> options] >>,
      state |-> IF response.ok THEN "resolved" ELSE "rejected",
      value |-> IF response.ok THEN Object(response.data) ELSE response.error]

\* A faulty _putItem, which sends the put again when the store fails.
putItemRetrying(model, opts, response) ==
  LET validated == validate(model)
      options == Spread(("TableName" :> validated.this.tableName)
                          @@ ("Item" :> getAttributes(validated.this))
                          @@ ("ReturnValues" :> Str("NONE")), opts)
      call == [op |-> "put", params |-> options]
  IN IF ~validated.result
     THEN [model |-> validated.this, calls |-> << >>, state |-> "rejected",
           value |-> Error(getValidationErrors(validated.this)[1])]
     ELSE [model |-> validated.this,
           calls |-> IF response.ok THEN << call >> ELSE << call, call >>,
           state |-> IF response.ok THEN "resolved" ELSE "rejected",
           value |-> IF response.ok THEN Object(response.data)
                     ELSE response.error]

\* DbModel._putItem(model, opts): also yields the model as validate() left it.
putItem(model, opts, response) ==
  LET validated == validate(model)
      options == Spread(("TableName" :> validated.this.tableName)
                          @@ ("Item" :> getAttributes(validated.this))
                          @@ ("ReturnValues" :> Str("NONE")), opts)
  IN IF ~validated.result
     THEN [model |-> validated.this, calls |-> << >>, state |-> "rejected",
           value |-> Error(getValidationErrors(validated.this)[1])]
     ELSE [model |-> validated.this,
           calls |-> << [op |-> "put", params |-> options] >>,
           state |-> IF response.ok THEN "resolved" ELSE "rejected",
           value |-> IF response.ok THEN Object(response.data)
                     ELSE response.error]

(***************************************************************************)
(* DbModel's public operations.  The static finders construct their own    *)
(* default instance with `new this()`.                                     *)
(***************************************************************************)
\* DbModel.save()
save(this, response) == putItem(this, EmptyObject, response)

\* The key findByPk builds from its arguments.
findByPkKey(model, partitionKey, sortKey) ==
  LET key == Put(EmptyObject, PropertyKey(model.partitionKey), partitionKey)
  IN IF Truthy(sortKey) THEN Put(key, PropertyKey(model.sortKey), sortKey)
     ELSE key

\* A faulty findByPk, which returns its model whatever the store returned.
findByPkAlwaysModel(type, partitionKey, sortKey, response, project, stage) ==
  LET model == New(type, EmptyObject, project, stage)
      options == ("Key" :> findByPkKey(model, partitionKey, sortKey))
      item == getItem(model, options, response)
  IN IF item.state = "rejected" THEN item
     ELSE [item EXCEPT !.value =
             Instance(IF Truthy(item.value) THEN populate(model, item.value.v)
                      ELSE model)]

\* DbModel.findByPk(partitionKey, sortKey)
findByPk(type, partitionKey, sortKey, response, project, stage) ==
  LET model == New(type, EmptyObject, project, stage)
      options == ("Key" :> findByPkKey(model, partitionKey, sortKey))
      item == getItem(model, options, response)
  IN IF item.state = "rejected" THEN item
     ELSE [item EXCEPT !.value =
             IF Truthy(item.value) THEN Instance(populate(model, item.value.v))
             ELSE item.value]

\* sortKeys && sortKeys.length && sortKeys[i], for the 1-based index i
SortKeyAt(sortKeys, i) ==
  IF ~Truthy(sortKeys) THEN sortKeys
  ELSE IF Len(sortKeys.v) = 0 THEN Num("0")
  ELSE IF i <= Len(sortKeys.v) THEN sortKeys.v[i] ELSE Undefined

\* The loop of findAllByPk from index i on, with the keys pushed so far.
RECURSIVE findAllByPkKeys(_, _, _, _, _)
findAllByPkKeys(model, partitionKeys, sortKeys, i, keys) ==
  IF i > Len(partitionKeys) THEN keys
  ELSE IF Truthy(partitionKeys[i])
  THEN LET key == Put(EmptyObject, PropertyKey(model.partitionKey),
                      partitionKeys[i])
           sorted == IF Truthy(SortKeyAt(sortKeys, i))
                     THEN Put(key, PropertyKey(model.sortKey), sortKeys.v[i])
                     ELSE key
       IN findAllByPkKeys(model, partitionKeys, sortKeys, i + 1,
                          Append(keys, sorted))
  ELSE findAllByPkKeys(model, partitionKeys, sortKeys, i + 1, keys)

\* items.forEach((item) => models.push(new this(item)))
Models(type, items, project, stage) ==
  [i \in 1..Len(items) |-> New(type, items[i], project, stage)]

\* DbModel.findAllByPk(partitionKeys, sortKeys)
findAllByPk(type, partitionKeys, sortKeys, store, project, stage) ==
  LET model == New(type, EmptyObject, project, stage)
      options == ("Keys" :> findAllByPkKeys(model, partitionKeys, sortKeys,
                                            1, << >>))
      items == batchGetItems(model, options, store)
  IN IF items.state = "rejected" THEN items
     ELSE [items EXCEPT !.value =
             Array(Models(type, items.value, project, stage))]

\* DbModel.findAllBy(expression, values, opts)
findAllBy(type, expression, values, opts, store, project, stage) ==
  LET model == New(type, EmptyObject, project, stage)
      options == Spread(("KeyConditionExpression" :> expression)
                          @@ ("ExpressionAttributeValues" :> values), opts)
      items == queryItems(model, options, store)
  IN IF items.state = "rejected" THEN items
     ELSE [items EXCEPT !.value =
             Array(Models(type, items.value, project, stage))]

(***************************************************************************)
(* The state.                                                              *)
(*   project, stage  process.env.project and process.env.stage             *)
(*   type            the concrete record type in use                       *)
(*   instance        the record instance the application holds             *)
(*   request         the operation called last (or, for a finder, being    *)
(*                   called), with its arguments and the store it meets    *)
(*   calls           the requests that operation sent to the store         *)
(*   settled         how it returned, or how its promise settled; a finder *)
(*                   not yet run is pending                                *)
(*   invoked         the internal key-value operations it invoked itself,  *)
(*                   each with the number of requests sent before the      *)
(*                   invocation settled                                    *)
(***************************************************************************)
VARIABLES project, stage, type, instance, request, calls, settled, invoked

vars == << project, stage, type, instance, request, calls, settled, invoked >>

Boolean(b) == [t |-> "boolean", v |-> IF b THEN "true" ELSE "false"]

\* Values the callers populate with.
PopulateValues == {KEY_FIELD_VALUE, Num("123"), Null}

\* Maps handed to populate().
PopulateMaps ==
  UNION {[names -> PopulateValues] :
           names \in {S \in SUBSET AttributeNames : Cardinality(S) <= MaxPopulate}}

\* Values of process.env.project and process.env.stage.
Projects == {Undefined, Str(""), Str("MyProject")}
Stages == {Undefined, Str("MyStage")}

\* Entries of the key lists handed to findAllByPk, and sort key values handed
\* to the finders.  A sort key of Undefined is one not given.
PartitionKeyValues == {KEY_FIELD_VALUE, Undefined}
SortKeyValues == {TEXT_FIELD_VALUE, Num("0")}

\* The state right after `new Type(initialValues)`.
Constructed(initialValues) ==
  /\ instance = New(type, initialValues, project, stage)
  /\ request = [op |-> "new", args |-> << initialValues >>]
  /\ calls = << >>
  /\ settled = [state |-> "returned", value |-> Instance(instance)]
  /\ invoked = << >>

\* The state as a finder is called on the type.
Called(op, args) ==
  /\ instance = New(type, EmptyObject, project, stage)
  /\ request = [op |-> op, args |-> args]
  /\ calls = << >>
  /\ settled = [state |-> "pending", value |-> Undefined]
  /\ invoked = << >>

Pending(op) == request.op = op /\ settled.state = "pending"

\* A record constructed without initial values, in the test environment.
Init ==
  /\ project = Str("MyProject")
  /\ stage = Str("MyStage")
  /\ type \in {MockDbModel, Widget}
  /\ Constructed(EmptyObject)

\* One store operation of one type, in any environment: save() on a record
\* constructed from some initial values, or one finder with its arguments
\* and the store it meets.
InitStore ==
  /\ project \in Projects
  /\ stage \in Stages
  /\ type \in Types
  /\ \/ \E initialValues \in {EmptyObject} \cup StoredItems :
          Constructed(initialValues)
     \/ \E partitionKey \in {KEY_FIELD_VALUE, Num("0")},
           sortKey \in SortKeyValues \cup {Undefined},
           response \in GetResponses :
          Called("findByPk", << partitionKey, sortKey, response >>)
     \/ \E partitionKeys \in SeqsUpTo(PartitionKeyValues, MaxKeys),
           given \in BOOLEAN,
           sortKeys \in SeqsUpTo(SortKeyValues, MaxKeys),
           store \in BatchGetStores :
          Called("findAllByPk",
                 << partitionKeys,
                    IF given THEN Array(sortKeys) ELSE Undefined,
                    store >>)
     \/ \E opts \in {EmptyObject, ("IndexName" :> Str("byText"))},
           store \in QueryStores :
          Called("findAllBy",
                 << Str("keyField = :k"), (":k" :> KEY_FIELD_VALUE), opts, store >>)

\* instance.populate(values)
Populate ==
  \E values \in PopulateMaps :
    /\ instance' = populate(instance, values)
    /\ request' = [op |-> "populate", args |-> << values >>]
    /\ calls' = << >>
    /\ settled' = [state |-> "returned", value |-> Instance(instance')]
    /\ invoked' = << >>
    /\ UNCHANGED << project, stage, type >>

\* instance.validate()
Validate ==
  LET validated == validate(instance)
  IN /\ instance' = validated.this
     /\ request' = [op |-> "validate", args |-> << >>]
     /\ calls' = << >>
     /\ settled' = [state |-> "returned", value |-> Boolean(validated.result)]
     /\ invoked' = << >>
     /\ UNCHANGED << project, stage, type >>

\* instance.tableName = 'assigned-table-name'
SetTableName ==
  /\ instance' = [instance EXCEPT !.tableName = Str("assigned-table-name")]
  /\ request' = [op |-> "tableName", args |-> << Str("assigned-table-name") >>]
  /\ calls' = << >>
  /\ settled' = [state |-> "returned", value |-> Undefined]
  /\ invoked' = << >>
  /\ UNCHANGED << project, stage, type >>

\* instance.save(), until its promise settles
Save ==
  \E response \in PutResponses :
    LET put == save(instance, response)
    IN /\ instance' = put.model
       /\ request' = [op |-> "save", args |-> << >>]
       /\ calls' = put.calls
       /\ settled' = [state |-> put.state, value |-> put.value]
       /\ invoked' = << [op |-> "_putItem", calls |-> Len(put.calls)] >>
       /\ UNCHANGED << project, stage, type >>

\* Type.findByPk(partitionKey, sortKey), until its promise settles
FindByPk ==
  /\ Pending("findByPk")
  /\ LET found == findByPk(type, request.args[1], request.args[2],
                           request.args[3], project, stage)
     IN /\ calls' = found.calls
        /\ settled' = [state |-> found.state, value |-> found.value]
        /\ invoked' = << [op |-> "_getItem", calls |-> Len(found.calls)] >>
  /\ UNCHANGED << project, stage, type, instance, request >>

\* Type.findAllByPk(partitionKeys, sortKeys), until its promise settles
FindAllByPk ==
  /\ Pending("findAllByPk")
  /\ LET found == findAllByPk(type, request.args[1], request.args[2],
                              request.args[3], project, stage)
     IN /\ calls' = found.calls
        /\ settled' = [state |-> found.state, value |-> found.value]
        /\ invoked' = << [op |-> "_batchGetItems", calls |-> Len(found.calls)] >>
  /\ UNCHANGED << project, stage, type, instance, request >>

\* Type.findAllBy(expression, values, opts), until its promise settles
FindAllBy ==
  /\ Pending("findAllBy")
  /\ LET found == findAllBy(type, request.args[1], request.args[2],
                            request.args[3], request.args[4], project, stage)
     IN /\ calls' = found.calls
        /\ settled' = [state |-> found.state, value |-> found.value]
        /\ invoked' = << [op |-> "_queryItems", calls |-> Len(found.calls)] >>
  /\ UNCHANGED << project, stage, type, instance, request >>

\* The life of one record: populate, validate, name the table, save.
Next == Populate \/ Validate \/ SetTableName \/ Save

Spec == Init /\ [][Next]_vars

\* One store operation: a finder, or save() on the record just constructed.
NextStore ==
  \/ request.op = "new" /\ Save
  \/ FindByPk
  \/ FindAllByPk
  \/ FindAllBy

SpecStore == InitStore /\ [][NextStore]_vars

(***************************************************************************)
(* What the properties below are stated with.  These say what is expected  *)
(* of the code and are not computed the way the code computes.             *)
(***************************************************************************)
\* The attributes satisfy every rule of the schema.
Satisfies(schema, attributes) ==
  \A i \in 1..Len(schema.props) :
    TypeIs(schema.props[i].type, Get(attributes, schema.props[i].name))

\* The error for the first attribute, in declared order, that breaks its rule.
FirstViolation(schema, attributes) ==
  LET violating == {i \in 1..Len(schema.props) :
                      ~TypeIs(schema.props[i].type,
                              Get(attributes, schema.props[i].name))}
      first == CHOOSE i \in violating : \A j \in violating : i <= j
  IN InvalidValueMessage(schema, first,
                         Get(attributes, schema.props[first].name))

\* The entries of a map whose names a schema declares.
DeclaredPart(schema, values) ==
  [n \in DOMAIN values \cap Declared(schema) |-> values[n]]

\* The pages of a store, one after the other.
RECURSIVE Concatenated(_)
Concatenated(pages) ==
  IF Len(pages) = 0 THEN << >> ELSE Head(pages) \o Concatenated(Tail(pages))

\* A list of models holds one populated instance per item, in order.
PopulatedFrom(models, items) ==
  /\ Len(models) = Len(items)
  /\ \A i \in 1..Len(items) :
       getAttributes(models[i]) = DeclaredPart(models[i].schema, items[i])

Settled == settled.state \in {"resolved", "rejected"}

C2_ValidSavePutsOnce ==
  (request.op = "save" /\ Satisfies(instance.schema, instance.props)) =>
    /\ Len(calls) = 1
    /\ calls[1].op = "put"
    /\ calls[1].params["Item"] = DeclaredPart(instance.schema, instance.props)
    /\ calls[1].params["Item"] = getAttributes(instance)
    /\ calls[1].params["TableName"] = instance.tableName
    /\ getValidationErrors(instance) = << >>

\* A valid save, after the table name was assigned, that the store refused.
C2_Witness ==
  /\ request.op = "save"
  /\ Satisfies(instance.schema, instance.props)
  /\ instance.tableName = Str("assigned-table-name")
  /\ settled.state = "rejected"
  /\ settled.value.t = "error"
  /\ settled.value.v = StoreError.v
  /\ Len(calls) = 1

(***************************************************************************)
(* C3.  findAllBy follows the pagination to its end: against a store that  *)
(* answers with a chain of pages it sends one query per page, the first    *)
(* without a continuation token and every later one with the token of the  *)
(* page before and otherwise unchanged, and it returns one populated       *)
(* instance per item of every page, in page order.                         *)
(***************************************************************************)
C3_FindAllByFollowsPagination ==
  (request.op = "findAllBy" /\ Settled /\ ~request.args[4].fails) =>
    LET pages == request.args[4].pages
    IN /\ settled.state = "resolved"
       /\ Len(calls) = Len(pages)
       /\ \A i \in 1..Len(calls) : calls[i].op = "query"
       /\ "ExclusiveStartKey" \notin DOMAIN calls[1].params
       /\ \A i \in 2..Len(calls) :
            calls[i].params =
              Put(calls[1].params, "ExclusiveStartKey", ContinuationToken(i - 1))
       /\ settled.value.t = "array"
       /\ PopulatedFrom(settled.value.v, Concatenated(pages))

\* Page 1 with two items and a token, page 2 with one item and none: three
\* instances come back.
C3_Witness ==
  /\ request.op = "findAllBy"
  /\ Settled
  /\ request.args[4] = [pages |-> << << ItemA, ItemB >>, << ItemA >> >>,
                        fails |-> FALSE]
  /\ Len(settled.value.v) = 3

C6_FindByPkSentinelOrInstance ==
  (request.op = "findByPk" /\ Settled) =>
    LET response == request.args[3]
    IN /\ Len(calls) = 1
       /\ calls[1].op = "get"
       /\ response.ok =>
            /\ settled.state = "resolved"
            /\ IF "Item" \in DOMAIN response.data
               THEN /\ settled.value.t = "model"
                    /\ getAttributes(settled.value.v)
                         = DeclaredPart(type.schema, response.data["Item"].v)
               ELSE settled.value.t = "undefined"

\* An item with an undeclared attribute was found.
C6_Witness ==
  /\ request.op = "findByPk"
  /\ Settled
  /\ request.args[3] = Resolves(("Item" :> Object(ItemB)))
  /\ settled.value.t = "model"

(***************************************************************************)
(* C7.  The default table name is the join with '-' of the non-empty       *)
(* values among the project, the stage and the type's name: with both      *)
(* configured 'MyProject-MyStage-<type>', with neither '<type>'.           *)
(***************************************************************************)
C7_DefaultTableNameJoinsNonEmpty ==
  (type.tableName = Undefined) =>
    LET configured(p) == p # Undefined /\ p # Str("")
    IN instance.tableName =
         Str((IF configured(project) THEN project.v \o "-" ELSE "")
               \o (IF configured(stage) THEN stage.v \o "-" ELSE "")
               \o type.name)

(***************************************************************************)
(* C8.  findAllByPk sends one batch-get whose key list has one key per     *)
(* index with a truthy partition key, in index order, each carrying the    *)
(* sort key of the same index when both lists have an entry there; the     *)
(* result is one populated instance per returned item, in store order.     *)
(***************************************************************************)
C8_FindAllByPkKeys ==
  (request.op = "findAllByPk" /\ Settled /\ type.sortKey # Undefined) =>
    LET partitionKeys == request.args[1]
        sortKeys == request.args[2]
        store == request.args[3]
        kept == {i \in 1..Len(partitionKeys) : Truthy(partitionKeys[i])}
        \* the number of kept indices up to i: the place of i's key in the list
        place(i) == Cardinality({j \in kept : j <= i})
        keys == calls[1].params["RequestItems"][instance.tableName.v]["Keys"]
    IN /\ Len(calls) = 1
       /\ calls[1].op = "batchGet"
       /\ Len(keys) = Cardinality(kept)
       /\ \A i \in kept :
            keys[place(i)] =
              IF sortKeys.t = "array" /\ i <= Len(sortKeys.v)
              THEN Put(Put(EmptyObject, type.partitionKey.v, partitionKeys[i]),
                       type.sortKey.v, sortKeys.v[i])
              ELSE Put(EmptyObject, type.partitionKey.v, partitionKeys[i])
       /\ ~store.fails =>
            /\ settled.value.t = "array"
            /\ PopulatedFrom(settled.value.v, store.items)

(***************************************************************************)
(* C9.  The key findByPk sends is the partition key entry, plus the sort   *)
(* key entry for every sort key value supplied; without a sort key value   *)
(* it is the partition key entry only.                                     *)
(***************************************************************************)
C9_FindByPkKey ==
  (request.op = "findByPk" /\ Settled /\ type.sortKey # Undefined) =>
    LET partitionKey == request.args[1]
        sortKey == request.args[2]
    IN calls[1].params["Key"] =
         IF sortKey # Undefined
         THEN Put(Put(EmptyObject, type.partitionKey.v, partitionKey),
                  type.sortKey.v, sortKey)
         ELSE Put(EmptyObject, type.partitionKey.v, partitionKey)

(***************************************************************************)
(* C10, as stated.  Every internal key-value operation a public operation  *)
(* invokes sends exactly one request before it settles; a continuation     *)
(* token is followed by findAllBy, not inside the query-items operation.   *)
(* (A save refused by validation, which sends nothing, is left aside.)     *)
(***************************************************************************)
C10_OneCallPerInvocation ==
  (Settled /\ calls # << >>) =>
    \A i \in 1..Len(invoked) : invoked[i].calls = 1

(***************************************************************************)
(* C10, amended.  Every public operation invokes its internal operation    *)
(* once.  Get-item and batch-get-items send exactly one request per        *)
(* invocation, put-item one when validation passes and none otherwise;     *)
(* query-items follows the continuation tokens itself, so that its one     *)
(* invocation by findAllBy sends one request per page the store answers    *)
(* with.                                                                   *)
(***************************************************************************)
C10_QueryItemsFollowsTokens ==
  Settled =>
    /\ Len(invoked) = 1
    /\ invoked[1].calls = Len(calls)
    /\ request.op = "findByPk" => invoked = << [op |-> "_getItem", calls |-> 1] >>
    /\ request.op = "findAllByPk" =>
         invoked = << [op |-> "_batchGetItems", calls |-> 1] >>
    /\ request.op = "save" =>
         invoked = << [op |-> "_putItem",
                       calls |-> IF Satisfies(instance.schema, instance.props)
                                 THEN 1 ELSE 0] >>
    /\ request.op = "findAllBy" =>
         invoked = << [op |-> "_queryItems",
                       calls |-> Len(request.args[4].pages)] >>

\* A query answered with three pages: one invocation, three requests.
C10_Witness ==
  /\ request.op = "findAllBy"
  /\ Settled
  /\ Len(request.args[4].pages) = 3
  /\ invoked = << [op |-> "_queryItems", calls |-> 3] >>

====
